---- MODULE Spec2Model ----
(***************************************************************************)
(* Warehouse Operations API (src/app/main.py): two in-memory stores,       *)
(* inventory and orders, each a Python dict keyed by an id taken from its  *)
(* own counter, and the ten FastAPI request handlers that work on them.    *)
(*                                                                         *)
(* A Python dict is modelled as the sequence of its entries in insertion   *)
(* order.  A JSON value is a tagged record [t, v]; a JSON object (a        *)
(* request body, a stored record) is a function from field names to        *)
(* values, a field that the body does not carry being outside its DOMAIN.  *)
(* Every handler is an operator from the state before the request to the   *)
(* state after it, response included; an action applies one handler.       *)
(***************************************************************************)
EXTENDS Integers, Sequences, FiniteSets, TLC

VARIABLES inventory, orders, inventory_counter, order_counter,
          response, inv_issued, ord_issued,
          script,    \* the client that sends a fixed sequence of requests
          threads    \* the requests in progress when handlers interleave

store == <<inventory, orders, inventory_counter, order_counter>>
vars == <<inventory, orders, inventory_counter, order_counter,
          response, inv_issued, ord_issued, script, threads>>

---------------------------------------------------------------------------
(* Bounds of the model *)

MaxInvId == 2
MaxOrdId == 2
MaxItems == 2
(* the stock and the longest item list of the cascade specification *)
CascadeIds == 3
CascadeItems == 3
NumThreads == 2

---------------------------------------------------------------------------
(* JSON values *)

JStr(s) == [t |-> "str", v |-> s]
JInt(n) == [t |-> "int", v |-> n]
JList(q) == [t |-> "list", v |-> q]
JNull == [t |-> "null", v |-> 0]

MaxNameLen == 100
LongName ==
  "xxxxxxxxxxxxxxxxxxxxxxxxxxxxxxxxxxxxxxxxxxxxxxxxxxxxxxxxxxxxxxxxxxxxxxxxxxxxxxxxxxxxxxxxxxxxxxxxxxxxx"

(* dict(a); a.update(b): the keys of both, b's value where b has the key *)
DictUpdate(a, b) ==
  [k \in (DOMAIN a) \cup (DOMAIN b) |-> IF k \in DOMAIN b THEN b[k] ELSE a[k]]

(* the partial objects over the fields of F, F[k] being the values of k *)
Objects(F) ==
  UNION { { o \in [D -> UNION { F[k] : k \in D }] : \A k \in D : o[k] \in F[k] }
          : D \in SUBSET (DOMAIN F) }

---------------------------------------------------------------------------
(* Python dict keyed by id, entries in insertion order *)

RECURSIVE SelectEntries(_, _)
SelectEntries(d, k) ==
  IF d = <<>> THEN <<>>
  ELSE (IF Head(d).k = k THEN <<>> ELSE <<Head(d)>>) \o SelectEntries(Tail(d), k)

Keys(d) == { d[i].k : i \in 1..Len(d) }
Has(d, k) == k \in Keys(d)
Get(d, k) == d[CHOOSE i \in 1..Len(d) : d[i].k = k].v
Values(d) == [i \in 1..Len(d) |-> d[i].v]
(* d[k] = v: an existing key keeps its position, a new key goes last *)
DictSet(d, k, v) ==
  IF Has(d, k)
  THEN [i \in 1..Len(d) |-> IF d[i].k = k THEN [k |-> k, v |-> v] ELSE d[i]]
  ELSE Append(d, [k |-> k, v |-> v])
(* del d[k] *)
DictDel(d, k) == SelectEntries(d, k)

---------------------------------------------------------------------------
(* The pydantic models: which bodies each accepts, and model_dump *)

NameOk(x) == x.t = "str" /\ Len(x.v) >= 1 /\ Len(x.v) <= MaxNameLen
NonNegIntOk(x) == x.t = "int" /\ x.v >= 0
(* price is a float: a JSON number; the model carries whole numbers only *)
NonNegNumOk(x) == x.t = "int" /\ x.v >= 0
ListOk(x) == x.t = "list"
StrOk(x) == x.t = "str"

(* the fields of InventoryCreate are all required *)
InventoryCreate(body) ==
  /\ "name" \in DOMAIN body /\ NameOk(body["name"])
  /\ "quantity" \in DOMAIN body /\ NonNegIntOk(body["quantity"])
  /\ "price" \in DOMAIN body /\ NonNegNumOk(body["price"])

(* each field of InventoryUpdate may be left out or be None *)
InventoryUpdate(body) ==
  /\ "name" \in DOMAIN body => (body["name"] = JNull \/ NameOk(body["name"]))
  /\ "quantity" \in DOMAIN body =>
       (body["quantity"] = JNull \/ NonNegIntOk(body["quantity"]))
  /\ "price" \in DOMAIN body =>
       (body["price"] = JNull \/ NonNegNumOk(body["price"]))

InventoryOut(record) ==
  /\ InventoryCreate(record)
  /\ "id" \in DOMAIN record /\ record["id"] \in Int

(* customer is required, items and status have defaults *)
OrderCreate(body) ==
  /\ "customer" \in DOMAIN body /\ NameOk(body["customer"])
  /\ "items" \in DOMAIN body => ListOk(body["items"])
  /\ "status" \in DOMAIN body => StrOk(body["status"])

OrderUpdate(body) ==
  /\ "customer" \in DOMAIN body =>
       (body["customer"] = JNull \/ NameOk(body["customer"]))
  /\ "items" \in DOMAIN body => (body["items"] = JNull \/ ListOk(body["items"]))
  /\ "status" \in DOMAIN body => (body["status"] = JNull \/ StrOk(body["status"]))

(* as a response model every field of OrderOut has to be there *)
OrderOut(record) ==
  /\ "customer" \in DOMAIN record /\ NameOk(record["customer"])
  /\ "items" \in DOMAIN record /\ ListOk(record["items"])
  /\ "status" \in DOMAIN record /\ StrOk(record["status"])
  /\ "id" \in DOMAIN record /\ record["id"] \in Int

(* payload.model_dump() of an InventoryCreate *)
InventoryCreate_model_dump(body) ==
  [f \in {"name", "quantity", "price"} |-> body[f]]

(* payload.model_dump() of an OrderCreate: the field defaults fill in *)
OrderCreate_model_dump(body) ==
  [f \in {"customer", "items", "status"} |->
     IF f \in DOMAIN body THEN body[f]
     ELSE IF f = "items" THEN JList(<<>>) ELSE JStr("pending")]

(* payload.model_dump(exclude_unset=True): the declared fields the body  *)
(* carries, a field sent as null included, any other key dropped         *)
InventoryUpdate_model_dump(body) ==
  [f \in (DOMAIN body) \cap {"name", "quantity", "price"} |-> body[f]]

OrderUpdate_model_dump(body) ==
  [f \in (DOMAIN body) \cap {"customer", "items", "status"} |-> body[f]]

---------------------------------------------------------------------------
(* Responses *)

RECURSIVE Joined(_)
Joined(q) ==
  IF q = <<>> THEN <<>>
  ELSE IF Len(q) = 1 THEN <<ToString(Head(q))>>
  ELSE <<ToString(Head(q)), ", ">> \o Joined(Tail(q))

(* str() of a list of ints, as the f-string renders it, in pieces *)
PyListRepr(q) == <<"[">> \o Joined(q) \o <<"]">>

Result(s, resp) ==
  [inventory |-> s.inventory, orders |-> s.orders,
   inventory_counter |-> s.inventory_counter,
   order_counter |-> s.order_counter, response |-> resp]

HTTPException(status_code, detail) ==
  [status |-> status_code, detail |-> detail, body |-> <<>>]

(* a body that fails its pydantic model never reaches the handler *)
RequestValidationError == HTTPException(422, <<"validation error">>)

(* an exception FastAPI does not handle: a return value that fails the    *)
(* response_model, a TypeError of the handler                             *)
InternalServerError == HTTPException(500, <<"Internal Server Error">>)

(* the handler returned content; valid: content passes the response_model *)
Returned(status_code, valid, content) ==
  IF valid
  THEN [status |-> status_code, detail |-> <<>>, body |-> <<content>>]
  ELSE InternalServerError

ReturnedList(status_code, valid, contents) ==
  IF valid
  THEN [status |-> status_code, detail |-> <<>>, body |-> contents]
  ELSE InternalServerError

(* Response(status_code=204) *)
Response(status_code) == [status |-> status_code, detail |-> <<>>, body |-> <<>>]

(* no request has been answered yet *)
NoResponse == Response(0)

---------------------------------------------------------------------------
(* The handlers.  s is the state before the request (the two dicts and   *)
(* the two counters); the value is the state after it and the response.  *)

reset_state(s) ==
  [inventory |-> <<>>, orders |-> <<>>, inventory_counter |-> 0,
   order_counter |-> 0, response |-> NoResponse]

list_inventory(s) ==
  LET records == Values(s.inventory)
  IN  Result(s, ReturnedList(200,
                  \A i \in 1..Len(records) : InventoryOut(records[i]), records))

(* fault: the id is taken from the size of the dict, not from the counter *)
create_inventory_by_size(s, payload) ==
  IF ~InventoryCreate(payload) THEN Result(s, RequestValidationError)
  ELSE
    LET counter == Len(s.inventory) + 1
        record == DictUpdate([id |-> counter], InventoryCreate_model_dump(payload))
    IN  [inventory |-> DictSet(s.inventory, counter, record),
         orders |-> s.orders,
         inventory_counter |-> counter,
         order_counter |-> s.order_counter,
         response |-> Returned(201, InventoryOut(record), record)]

create_inventory(s, payload) ==
  IF ~InventoryCreate(payload) THEN Result(s, RequestValidationError)
  ELSE
    LET counter == s.inventory_counter + 1
        record == DictUpdate([id |-> counter], InventoryCreate_model_dump(payload))
    IN  [inventory |-> DictSet(s.inventory, counter, record),
         orders |-> s.orders,
         inventory_counter |-> counter,
         order_counter |-> s.order_counter,
         response |-> Returned(201, InventoryOut(record), record)]

(* fault: the replacement takes a counter value as a creation does *)
replace_inventory_counting(s, item_id, payload) ==
  IF ~InventoryCreate(payload) THEN Result(s, RequestValidationError)
  ELSE IF ~Has(s.inventory, item_id)
  THEN Result(s, HTTPException(404, <<"Inventory item not found">>))
  ELSE
    LET record == DictUpdate([id |-> item_id], InventoryCreate_model_dump(payload))
    IN  [inventory |-> DictSet(s.inventory, item_id, record),
         orders |-> s.orders,
         inventory_counter |-> s.inventory_counter + 1,
         order_counter |-> s.order_counter,
         response |-> Returned(200, InventoryOut(record), record)]

replace_inventory(s, item_id, payload) ==
  IF ~InventoryCreate(payload) THEN Result(s, RequestValidationError)
  ELSE IF ~Has(s.inventory, item_id)
  THEN Result(s, HTTPException(404, <<"Inventory item not found">>))
  ELSE
    LET record == DictUpdate([id |-> item_id], InventoryCreate_model_dump(payload))
    IN  [inventory |-> DictSet(s.inventory, item_id, record),
         orders |-> s.orders,
         inventory_counter |-> s.inventory_counter,
         order_counter |-> s.order_counter,
         response |-> Returned(200, InventoryOut(record), record)]

(* fault: the merge runs the wrong way, the stored values win *)
patch_inventory_keeping(s, item_id, payload) ==
  IF ~InventoryUpdate(payload) THEN Result(s, RequestValidationError)
  ELSE IF ~Has(s.inventory, item_id)
  THEN Result(s, HTTPException(404, <<"Inventory item not found">>))
  ELSE
    LET updates == InventoryUpdate_model_dump(payload)
        current == DictUpdate(updates, Get(s.inventory, item_id))
    IN  [inventory |-> DictSet(s.inventory, item_id, current),
         orders |-> s.orders,
         inventory_counter |-> s.inventory_counter,
         order_counter |-> s.order_counter,
         response |-> Returned(200, InventoryOut(current), current)]

patch_inventory(s, item_id, payload) ==
  IF ~InventoryUpdate(payload) THEN Result(s, RequestValidationError)
  ELSE IF ~Has(s.inventory, item_id)
  THEN Result(s, HTTPException(404, <<"Inventory item not found">>))
  ELSE
    LET updates == InventoryUpdate_model_dump(payload)
        current == DictUpdate(Get(s.inventory, item_id), updates)
    IN  [inventory |-> DictSet(s.inventory, item_id, current),
         orders |-> s.orders,
         inventory_counter |-> s.inventory_counter,
         order_counter |-> s.order_counter,
         response |-> Returned(200, InventoryOut(current), current)]

(* [i for i in order["items"] if i != item_id] *)
without(items, item_id) == SelectSeq(items, LAMBDA i : i # item_id)

(* fault: list.remove(item_id), which takes out the first occurrence only *)
RECURSIVE without_first(_, _)
without_first(items, item_id) ==
  IF items = <<>> THEN <<>>
  ELSE IF Head(items) = item_id THEN Tail(items)
  ELSE <<Head(items)>> \o without_first(Tail(items), item_id)

clean_first_reference(orders_, item_id) ==
  [n \in 1..Len(orders_) |->
     LET order == orders_[n].v
     IN  [k |-> orders_[n].k,
          v |-> DictUpdate(order,
                  [items |-> JList(without_first(order["items"].v, item_id))])]]

(* the loop of delete_inventory over orders.values(): the items of an     *)
(* order that holds item_id are rebuilt, the other orders are not touched *)
clean_order_references(orders_, item_id) ==
  [n \in 1..Len(orders_) |->
     LET order == orders_[n].v
     IN  IF \E j \in 1..Len(order["items"].v) : order["items"].v[j] = item_id
         THEN [k |-> orders_[n].k,
               v |-> DictUpdate(order,
                       [items |-> JList(without(order["items"].v, item_id))])]
         ELSE orders_[n]]

(* fault: the item is deleted and the orders are left as they are *)
delete_inventory_without_cleanup(s, item_id) ==
  IF ~Has(s.inventory, item_id)
  THEN Result(s, HTTPException(404, <<"Inventory item not found">>))
  ELSE [inventory |-> DictDel(s.inventory, item_id),
        orders |-> s.orders,
        inventory_counter |-> s.inventory_counter,
        order_counter |-> s.order_counter,
        response |-> Response(204)]

(* fault: the counter restarts when the last inventory record is deleted *)
delete_inventory_restarting(s, item_id) ==
  IF ~Has(s.inventory, item_id)
  THEN Result(s, HTTPException(404, <<"Inventory item not found">>))
  ELSE [inventory |-> DictDel(s.inventory, item_id),
        orders |-> clean_order_references(s.orders, item_id),
        inventory_counter |-> IF DictDel(s.inventory, item_id) = <<>> THEN 0
                              ELSE s.inventory_counter,
        order_counter |-> s.order_counter,
        response |-> Response(204)]

delete_inventory(s, item_id) ==
  IF ~Has(s.inventory, item_id)
  THEN Result(s, HTTPException(404, <<"Inventory item not found">>))
  ELSE [inventory |-> DictDel(s.inventory, item_id),
        orders |-> clean_order_references(s.orders, item_id),
        inventory_counter |-> s.inventory_counter,
        order_counter |-> s.order_counter,
        response |-> Response(204)]

(* fault: every missing id is reported once, in ascending order *)
missing_items_distinct(s, item_ids) ==
  LET absent == {i \in {item_ids[n] : n \in DOMAIN item_ids} :
                   ~Has(s.inventory, i)}
      ordered[n \in 0..Cardinality(absent)] ==
        IF n = 0 THEN <<>>
        ELSE LET rest == absent \ {ordered[n - 1][k] : k \in 1..(n - 1)}
             IN  Append(ordered[n - 1],
                        CHOOSE i \in rest : \A j \in rest : i <= j)
  IN  ordered[Cardinality(absent)]

(* missing = [item_id for item_id in item_ids if item_id not in inventory] *)
missing_items(s, item_ids) ==
  SelectSeq(item_ids, LAMBDA item_id : ~Has(s.inventory, item_id))

(* the HTTPException _validate_order_items raises when missing is not empty *)
items_not_found(missing) ==
  HTTPException(400, <<"Items not found in inventory: ">> \o PyListRepr(missing))

(* _validate_order_items: raises the 400 when an id is missing, and returns
   None otherwise (NoResponse: the caller goes on). It reads s.inventory
   and assigns nothing. *)
validate_order_items(s, item_ids) ==
  LET missing == missing_items(s, item_ids)
  IN  IF missing # <<>> THEN Result(s, items_not_found(missing))
      ELSE Result(s, NoResponse)

(* fault: the order id is allocated before the items are validated *)
create_order_allocating_first(s, payload) ==
  IF ~OrderCreate(payload) THEN Result(s, RequestValidationError)
  ELSE
    LET dump == OrderCreate_model_dump(payload)
        missing == missing_items(s, dump["items"].v)
        counter == s.order_counter + 1
        record == DictUpdate([id |-> counter], dump)
    IN  IF missing # <<>>
        THEN [inventory |-> s.inventory,
              orders |-> s.orders,
              inventory_counter |-> s.inventory_counter,
              order_counter |-> counter,
              response |-> items_not_found(missing)]
        ELSE [inventory |-> s.inventory,
              orders |-> DictSet(s.orders, counter, record),
              inventory_counter |-> s.inventory_counter,
              order_counter |-> counter,
              response |-> Returned(201, OrderOut(record), record)]

(* fault: POST /orders counts on the inventory counter *)
create_order_counting_inventory(s, payload) ==
  IF ~OrderCreate(payload) THEN Result(s, RequestValidationError)
  ELSE
    LET dump == OrderCreate_model_dump(payload)
        validated == validate_order_items(s, dump["items"].v)
        counter == s.inventory_counter + 1
        record == DictUpdate([id |-> counter], dump)
    IN  IF validated.response # NoResponse THEN validated
        ELSE [inventory |-> s.inventory,
              orders |-> DictSet(s.orders, counter, record),
              inventory_counter |-> counter,
              order_counter |-> s.order_counter,
              response |-> Returned(201, OrderOut(record), record)]

create_order(s, payload) ==
  IF ~OrderCreate(payload) THEN Result(s, RequestValidationError)
  ELSE
    LET dump == OrderCreate_model_dump(payload)
        validated == validate_order_items(s, dump["items"].v)
        counter == s.order_counter + 1
        record == DictUpdate([id |-> counter], dump)
    IN  IF validated.response # NoResponse THEN validated
        ELSE [inventory |-> s.inventory,
              orders |-> DictSet(s.orders, counter, record),
              inventory_counter |-> s.inventory_counter,
              order_counter |-> counter,
              response |-> Returned(201, OrderOut(record), record)]

read_order(s, order_id) ==
  IF ~Has(s.orders, order_id)
  THEN Result(s, HTTPException(404, <<"Order not found">>))
  ELSE LET record == Get(s.orders, order_id)
       IN  Result(s, Returned(200, OrderOut(record), record))

(* fault: the body is merged onto the stored record, as PATCH does *)
replace_order_merging(s, order_id, payload) ==
  IF ~OrderCreate(payload) THEN Result(s, RequestValidationError)
  ELSE IF ~Has(s.orders, order_id)
  THEN Result(s, HTTPException(404, <<"Order not found">>))
  ELSE
    LET updates == OrderUpdate_model_dump(payload)
        missing == missing_items(s, OrderCreate_model_dump(payload)["items"].v)
        record == DictUpdate(Get(s.orders, order_id), updates)
    IN  IF missing # <<>> THEN Result(s, items_not_found(missing))
        ELSE [inventory |-> s.inventory,
              orders |-> DictSet(s.orders, order_id, record),
              inventory_counter |-> s.inventory_counter,
              order_counter |-> s.order_counter,
              response |-> Returned(200, OrderOut(record), record)]

(* fault: the items are validated before the order id is looked up *)
replace_order_validating_first(s, order_id, payload) ==
  IF ~OrderCreate(payload) THEN Result(s, RequestValidationError)
  ELSE
    LET dump == OrderCreate_model_dump(payload)
        missing == missing_items(s, dump["items"].v)
        record == DictUpdate([id |-> order_id], dump)
    IN  IF missing # <<>> THEN Result(s, items_not_found(missing))
        ELSE IF ~Has(s.orders, order_id)
        THEN Result(s, HTTPException(404, <<"Order not found">>))
        ELSE [inventory |-> s.inventory,
              orders |-> DictSet(s.orders, order_id, record),
              inventory_counter |-> s.inventory_counter,
              order_counter |-> s.order_counter,
              response |-> Returned(200, OrderOut(record), record)]

replace_order(s, order_id, payload) ==
  IF ~OrderCreate(payload) THEN Result(s, RequestValidationError)
  ELSE IF ~Has(s.orders, order_id)
  THEN Result(s, HTTPException(404, <<"Order not found">>))
  ELSE
    LET dump == OrderCreate_model_dump(payload)
        validated == validate_order_items(s, dump["items"].v)
        record == DictUpdate([id |-> order_id], dump)
    IN  IF validated.response # NoResponse THEN validated
        ELSE [inventory |-> s.inventory,
              orders |-> DictSet(s.orders, order_id, record),
              inventory_counter |-> s.inventory_counter,
              order_counter |-> s.order_counter,
              response |-> Returned(200, OrderOut(record), record)]

(* fault: the fields other than items are stored before the items are     *)
(* validated                                                              *)
patch_order_storing_first(s, order_id, payload) ==
  IF ~OrderUpdate(payload) THEN Result(s, RequestValidationError)
  ELSE IF ~Has(s.orders, order_id)
  THEN Result(s, HTTPException(404, <<"Order not found">>))
  ELSE
    LET updates == OrderUpdate_model_dump(payload)
        others == [f \in (DOMAIN updates) \ {"items"} |-> updates[f]]
        early == DictSet(s.orders, order_id,
                         DictUpdate(Get(s.orders, order_id), others))
        current == DictUpdate(Get(s.orders, order_id), updates)
    IN  IF "items" \in DOMAIN updates /\ updates["items"] = JNull
        THEN Result(s, InternalServerError)
        ELSE IF "items" \in DOMAIN updates
                /\ missing_items(s, updates["items"].v) # <<>>
        THEN [inventory |-> s.inventory,
              orders |-> early,
              inventory_counter |-> s.inventory_counter,
              order_counter |-> s.order_counter,
              response |-> items_not_found(missing_items(s, updates["items"].v))]
        ELSE [inventory |-> s.inventory,
              orders |-> DictSet(s.orders, order_id, current),
              inventory_counter |-> s.inventory_counter,
              order_counter |-> s.order_counter,
              response |-> Returned(200, OrderOut(current), current)]

(* fault: the fields that the body leaves out are set to the defaults of
   OrderCreate, as PUT does *)
patch_order_defaulting(s, order_id, payload) ==
  IF ~OrderUpdate(payload) THEN Result(s, RequestValidationError)
  ELSE IF ~Has(s.orders, order_id)
  THEN Result(s, HTTPException(404, <<"Order not found">>))
  ELSE
    LET updates == OrderUpdate_model_dump(payload)
        current == DictUpdate([id |-> order_id,
                               customer |-> Get(s.orders, order_id)["customer"],
                               items |-> JList(<<>>),
                               status |-> JStr("pending")], updates)
    IN  IF "items" \in DOMAIN updates /\ updates["items"] = JNull
        THEN Result(s, InternalServerError)
        ELSE IF "items" \in DOMAIN updates
                /\ validate_order_items(s, updates["items"].v).response
                     # NoResponse
        THEN validate_order_items(s, updates["items"].v)
        ELSE [inventory |-> s.inventory,
              orders |-> DictSet(s.orders, order_id, current),
              inventory_counter |-> s.inventory_counter,
              order_counter |-> s.order_counter,
              response |-> Returned(200, OrderOut(current), current)]

patch_order(s, order_id, payload) ==
  IF ~OrderUpdate(payload) THEN Result(s, RequestValidationError)
  ELSE IF ~Has(s.orders, order_id)
  THEN Result(s, HTTPException(404, <<"Order not found">>))
  ELSE
    LET updates == OrderUpdate_model_dump(payload)
        current == DictUpdate(Get(s.orders, order_id), updates)
    IN  IF "items" \in DOMAIN updates /\ updates["items"] = JNull
        THEN Result(s, InternalServerError)   \* iterating None: TypeError
        ELSE IF "items" \in DOMAIN updates
                /\ validate_order_items(s, updates["items"].v).response
                     # NoResponse
        THEN validate_order_items(s, updates["items"].v)
        ELSE [inventory |-> s.inventory,
              orders |-> DictSet(s.orders, order_id, current),
              inventory_counter |-> s.inventory_counter,
              order_counter |-> s.order_counter,
              response |-> Returned(200, OrderOut(current), current)]

(* fault: deleting an order that is not stored is answered as a success *)
delete_order_lenient(s, order_id) ==
  [inventory |-> s.inventory,
   orders |-> DictDel(s.orders, order_id),
   inventory_counter |-> s.inventory_counter,
   order_counter |-> s.order_counter,
   response |-> Response(204)]

(* fault: DELETE /orders/{id} answers 204 and leaves the order stored *)
delete_order_keeping(s, order_id) ==
  IF ~Has(s.orders, order_id)
  THEN Result(s, HTTPException(404, <<"Order not found">>))
  ELSE Result(s, Response(204))

delete_order(s, order_id) ==
  IF ~Has(s.orders, order_id)
  THEN Result(s, HTTPException(404, <<"Order not found">>))
  ELSE [inventory |-> s.inventory,
        orders |-> DictDel(s.orders, order_id),
        inventory_counter |-> s.inventory_counter,
        order_counter |-> s.order_counter,
        response |-> Response(204)]

---------------------------------------------------------------------------
(* The requests a client sends *)

Names == {"Widget"}
Quantities == {10}
Prices == {12, 9}
Customers == {"Ada"}
Statuses == {"shipped"}

(* the ids a request names: each is, from state to state, the id of a     *)
(* stored record, an id whose record was deleted, or an id not yet issued *)
InventoryPathIds == 1..MaxInvId
OrderPathIds == 1..MaxOrdId

(* item lists of up to MaxItems ids *)
ItemLists == UNION { [1..n -> InventoryPathIds] : n \in 0..MaxItems }

Widget == [name |-> JStr("Widget"), quantity |-> JInt(10), price |-> JInt(12)]
Ada == [customer |-> JStr("Ada"), items |-> JList(<<1>>)]

(* bodies of POST/PUT /inventory: the complete ones, and one body for     *)
(* each way of failing InventoryCreate                                    *)
InventoryBodies ==
  { o \in Objects([name |-> { JStr(n) : n \in Names },
                   quantity |-> { JInt(q) : q \in Quantities },
                   price |-> { JInt(p) : p \in Prices }]) :
      DOMAIN o = {"name", "quantity", "price"} }
  \cup { [Widget EXCEPT !.name = JStr("")],
         [Widget EXCEPT !.name = JStr(LongName)],
         [Widget EXCEPT !.name = JNull],
         [Widget EXCEPT !.quantity = JInt(-1)],
         [Widget EXCEPT !.quantity = JStr("many")],
         [Widget EXCEPT !.price = JInt(-1)],
         [f \in {"name", "quantity"} |-> Widget[f]] }

(* bodies of PATCH /inventory/{id}: any subset of the fields, name also   *)
(* sent as null, a key the model does not declare, and failing bodies     *)
InventoryPatches ==
  Objects([name |-> { JStr(n) : n \in Names } \cup {JNull},
           quantity |-> { JInt(q) : q \in Quantities },
           price |-> { JInt(p) : p \in Prices }])
  \cup { [name |-> JStr("")],
         [quantity |-> JInt(-1)],
         [id |-> JInt(MaxInvId + 1), price |-> JInt(9)] }

(* bodies of POST/PUT /orders: items and status each sent or left out,    *)
(* and one body for each way of failing OrderCreate                       *)
OrderBodies ==
  { o \in Objects([customer |-> { JStr(c) : c \in Customers },
                   items |-> { JList(q) : q \in ItemLists },
                   status |-> { JStr(x) : x \in Statuses }]) :
      "customer" \in DOMAIN o }
  \cup { [Ada EXCEPT !.customer = JStr("")],
         [Ada EXCEPT !.customer = JNull],
         [Ada EXCEPT !.items = JStr("all")],
         [f \in {"items"} |-> Ada[f]] }

(* bodies of PATCH /orders/{id}: any subset of the fields, items also     *)
(* sent as null, and a failing body                                       *)
OrderPatches ==
  Objects([customer |-> { JStr(c) : c \in Customers },
           items |-> { JList(q) : q \in ItemLists } \cup {JNull},
           status |-> { JStr(x) : x \in Statuses }])
  \cup { [Ada EXCEPT !.customer = JStr("")] }

(* more bodies of PATCH /orders/{id}, for the properties that look at one *)
(* request: a second customer, and every field also sent as null          *)
WideOrderPatches ==
  Objects([customer |-> {JStr("Ada"), JStr("Bob"), JNull},
           items |-> { JList(q) : q \in ItemLists } \cup {JNull},
           status |-> {JStr("shipped"), JNull}])

---------------------------------------------------------------------------
(* The state machine: one request at a time, each run to completion *)

S == [inventory |-> inventory, orders |-> orders,
      inventory_counter |-> inventory_counter, order_counter |-> order_counter]

(* the request is handled in one piece: the state after it and its response *)
Answer(r) ==
  /\ inventory' = r.inventory
  /\ orders' = r.orders
  /\ inventory_counter' = r.inventory_counter
  /\ order_counter' = r.order_counter
  /\ response' = r.response

Apply(r) ==
  /\ Answer(r)
  /\ UNCHANGED <<script, threads>>

(* the ids that the successful POSTs of a store returned since its reset *)
Issued(issued, r) ==
  IF r.response.status = 201 THEN Append(issued, r.response.body[1]["id"])
  ELSE issued

(* the module calls _reset_state() when it is loaded *)
Init ==
  /\ inventory = <<>>
  /\ orders = <<>>
  /\ inventory_counter = 0
  /\ order_counter = 0
  /\ response = NoResponse
  /\ inv_issued = <<>>
  /\ ord_issued = <<>>
  /\ script = <<>>
  /\ threads = <<>>

Reset ==
  /\ Apply(reset_state(S))
  /\ inv_issued' = <<>>
  /\ ord_issued' = <<>>

GetInventory ==
  /\ Apply(list_inventory(S))
  /\ UNCHANGED <<inv_issued, ord_issued>>

PostInventory ==
  /\ inventory_counter < MaxInvId
  /\ \E body \in InventoryBodies :
       /\ Apply(create_inventory(S, body))
       /\ inv_issued' = Issued(inv_issued, create_inventory(S, body))
  /\ UNCHANGED ord_issued

PutInventory ==
  /\ \E item_id \in InventoryPathIds, body \in InventoryBodies :
       Apply(replace_inventory(S, item_id, body))
  /\ UNCHANGED <<inv_issued, ord_issued>>

PatchInventory ==
  /\ \E item_id \in InventoryPathIds, body \in InventoryPatches :
       Apply(patch_inventory(S, item_id, body))
  /\ UNCHANGED <<inv_issued, ord_issued>>

DeleteInventory ==
  /\ \E item_id \in InventoryPathIds : Apply(delete_inventory(S, item_id))
  /\ UNCHANGED <<inv_issued, ord_issued>>

(* DELETE /inventory/{id} over a stock of CascadeIds items *)
CascadeDelete ==
  /\ \E item_id \in 1..CascadeIds : Apply(delete_inventory(S, item_id))
  /\ UNCHANGED <<inv_issued, ord_issued>>

PostOrder ==
  /\ order_counter < MaxOrdId
  /\ \E body \in OrderBodies :
       /\ Apply(create_order(S, body))
       /\ ord_issued' = Issued(ord_issued, create_order(S, body))
  /\ UNCHANGED inv_issued

GetOrder ==
  /\ \E order_id \in OrderPathIds : Apply(read_order(S, order_id))
  /\ UNCHANGED <<inv_issued, ord_issued>>

PutOrder ==
  /\ \E order_id \in OrderPathIds, body \in OrderBodies :
       Apply(replace_order(S, order_id, body))
  /\ UNCHANGED <<inv_issued, ord_issued>>

PatchOrder ==
  /\ \E order_id \in OrderPathIds, body \in OrderPatches :
       Apply(patch_order(S, order_id, body))
  /\ UNCHANGED <<inv_issued, ord_issued>>

DeleteOrder ==
  /\ \E order_id \in OrderPathIds : Apply(delete_order(S, order_id))
  /\ UNCHANGED <<inv_issued, ord_issued>>

Next ==
  \/ Reset
  \/ GetInventory
  \/ PostInventory
  \/ PutInventory
  \/ PatchInventory
  \/ DeleteInventory
  \/ PostOrder
  \/ GetOrder
  \/ PutOrder
  \/ PatchOrder
  \/ DeleteOrder

Spec == Init /\ [][Next]_vars

(* The cascade specification: the state after CascadeIds times POST       *)
(* /inventory, a POST /orders with any list of up to CascadeItems of the  *)
(* ids and a POST /orders without items, and from there the deletions.    *)
RECURSIVE Stocked(_)
Stocked(n) ==
  IF n = 0 THEN reset_state(S) ELSE create_inventory(Stocked(n - 1), Widget)

CascadeLists == UNION { [1..n -> 1..CascadeIds] : n \in 0..CascadeItems }

CascadeInit ==
  \E q \in CascadeLists :
    LET first == create_order(Stocked(CascadeIds), [Ada EXCEPT !.items = JList(q)])
        second == create_order(first, [customer |-> JStr("Ada"),
                                       status |-> JStr("shipped")])
    IN  /\ inventory = second.inventory
        /\ orders = second.orders
        /\ inventory_counter = second.inventory_counter
        /\ order_counter = second.order_counter
        /\ response = second.response
        /\ inv_issued = [i \in 1..CascadeIds |-> i]
        /\ ord_issued = <<first.response.body[1]["id"], second.response.body[1]["id"]>>
        /\ script = <<>>
        /\ threads = <<>>

SpecCascade == CascadeInit /\ [][CascadeDelete]_vars

(* The scenario specification: a client sends, to the freshly loaded      *)
(* module, two POST /inventory, a POST /orders naming both items, DELETE  *)
(* /inventory/1, GET /orders/1, DELETE /orders/1 and GET /orders/1.       *)
(* script.step counts the requests answered so far.  Prices are whole     *)
(* numbers in this model: 12 stands for the 12.5 of the demonstration.    *)
Gadget == [name |-> JStr("Gadget"), quantity |-> JInt(5), price |-> JInt(32)]
AdaPending == [customer |-> JStr("Ada"), items |-> JList(<<1, 2>>),
               status |-> JStr("pending")]

ScenarioItems ==
  [name : {JStr("Widget"), JStr("Gadget")},
   quantity : {JInt(10), JInt(5)},
   price : {JInt(12), JInt(32)}]

(* status "pending" is also what OrderCreate fills in when it is left out *)
ScenarioOrders == {AdaPending, [customer |-> JStr("Ada"), items |-> JList(<<1, 2>>)]}

ScenarioInit ==
  /\ inventory = <<>>
  /\ orders = <<>>
  /\ inventory_counter = 0
  /\ order_counter = 0
  /\ response = NoResponse
  /\ inv_issued = <<>>
  /\ ord_issued = <<>>
  /\ script \in [step : {0}, first : ScenarioItems, second : ScenarioItems,
                  order : ScenarioOrders]
  /\ threads = <<>>

(* the n-th request of the script is sent and answered with r *)
Send(n, r) ==
  /\ script.step = n - 1
  /\ Answer(r)
  /\ script' = [script EXCEPT !.step = n]
  /\ UNCHANGED threads

PostFirstItem ==
  /\ Send(1, create_inventory(S, script.first))
  /\ inv_issued' = Issued(inv_issued, create_inventory(S, script.first))
  /\ UNCHANGED ord_issued

PostSecondItem ==
  /\ Send(2, create_inventory(S, script.second))
  /\ inv_issued' = Issued(inv_issued, create_inventory(S, script.second))
  /\ UNCHANGED ord_issued

PostTheOrder ==
  /\ Send(3, create_order(S, script.order))
  /\ ord_issued' = Issued(ord_issued, create_order(S, script.order))
  /\ UNCHANGED inv_issued

DeleteFirstItem ==
  /\ Send(4, delete_inventory(S, 1))
  /\ UNCHANGED <<inv_issued, ord_issued>>

GetTheOrder ==
  /\ Send(5, read_order(S, 1))
  /\ UNCHANGED <<inv_issued, ord_issued>>

DeleteTheOrder ==
  /\ Send(6, delete_order(S, 1))
  /\ UNCHANGED <<inv_issued, ord_issued>>

GetDeletedOrder ==
  /\ Send(7, read_order(S, 1))
  /\ UNCHANGED <<inv_issued, ord_issued>>

ScenarioNext ==
  \/ PostFirstItem
  \/ PostSecondItem
  \/ PostTheOrder
  \/ DeleteFirstItem
  \/ GetTheOrder
  \/ DeleteTheOrder
  \/ GetDeletedOrder

SpecScenario == ScenarioInit /\ [][ScenarioNext]_vars

(* The concurrent specification.  The handlers are plain `def` functions, *)
(* which FastAPI runs on worker threads, and main.py holds no lock: the   *)
(* statements of two requests in progress interleave.  Each thread runs   *)
(* one request whose body has passed field validation; threads[t] holds   *)
(* the request (op, id, body), the line the thread is about to execute    *)
(* (pc, 0 once the request is answered), the dict the handler is building *)
(* (record), whether that dict is the object now in the store (alias) and *)
(* the response sent.  A step is one statement of main.py; the loop of    *)
(* delete_inventory is one step.                                          *)
Threads == 1..NumThreads

AdaShipped == [customer |-> JStr("Ada"), items |-> JList(<<1>>),
               status |-> JStr("shipped")]

Request(op, id, body) ==
  [op |-> op, id |-> id, body |-> body,
   pc |-> CASE op = "create_inventory" -> 69
            [] op = "delete_inventory" -> 99
            [] op = "create_order" -> 113
            [] op = "replace_order" -> 129
            [] op = "patch_order" -> 140,
   record |-> <<>>, alias |-> FALSE, response |-> NoResponse]

ConcurrentRequests ==
  {Request("create_inventory", 0, body) : body \in {Widget, Gadget}}
    \cup {Request("delete_inventory", 1, <<>>)}
    \cup {Request("create_order", 0, body) : body \in {Ada, AdaShipped}}
    \cup {Request("replace_order", 1, Ada)}
    \cup {Request("patch_order", 1, [items |-> JList(<<1>>)])}

(* the state after POST /inventory and a POST /orders, with or without    *)
(* the item; then the threads receive their requests                      *)
ConcurrentInit ==
  \E q \in {<<>>, <<1>>} :
    LET first == create_order(Stocked(1), [Ada EXCEPT !.items = JList(q)])
    IN  /\ inventory = first.inventory
        /\ orders = first.orders
        /\ inventory_counter = first.inventory_counter
        /\ order_counter = first.order_counter
        /\ response = first.response
        /\ inv_issued = <<1>>
        /\ ord_issued = <<1>>
        /\ script = <<>>
        /\ threads \in [Threads -> ConcurrentRequests]

At(t, op, line) == threads[t].op = op /\ threads[t].pc = line

(* thread t goes on to line, with record as the dict it is building *)
Goto(t, line, record) ==
  threads' = [threads EXCEPT ![t].pc = line, ![t].record = record]

(* thread t stores its record under key k: the object that another thread
   had stored under k is no longer the one in the store *)
Stored(t, k, line) ==
  threads' = [u \in Threads |->
                IF u = t THEN [threads[u] EXCEPT !.pc = line, !.alias = TRUE]
                ELSE IF threads[u].alias /\ threads[u].record["id"] = k
                          /\ (threads[u].op = "create_inventory")
                               = (threads[t].op = "create_inventory")
                     THEN [threads[u] EXCEPT !.alias = FALSE]
                     ELSE threads[u]]

(* the request of thread t is answered with resp: by an exception raised
   in the handler or by its return *)
Answered(t, resp) ==
  /\ threads' = [threads EXCEPT ![t].pc = 0, ![t].response = resp]
  /\ response' = resp

create_inventory_69(t) ==
  /\ At(t, "create_inventory", 69)
  /\ inventory_counter' = inventory_counter + 1
  /\ Goto(t, 70, <<>>)
  /\ UNCHANGED <<inventory, orders, order_counter, response,
                 inv_issued, ord_issued, script>>

create_inventory_70(t) ==
  /\ At(t, "create_inventory", 70)
  /\ Goto(t, 71, DictUpdate([id |-> inventory_counter],
                            InventoryCreate_model_dump(threads[t].body)))
  /\ UNCHANGED <<inventory, orders, inventory_counter, order_counter,
                 response, inv_issued, ord_issued, script>>

create_inventory_71(t) ==
  /\ At(t, "create_inventory", 71)
  /\ inventory' = DictSet(inventory, inventory_counter, threads[t].record)
  /\ Stored(t, inventory_counter, 72)
  /\ UNCHANGED <<orders, inventory_counter, order_counter, response,
                 inv_issued, ord_issued, script>>

create_inventory_72(t) ==
  /\ At(t, "create_inventory", 72)
  /\ Answered(t, Returned(201, InventoryOut(threads[t].record),
                          threads[t].record))
  /\ inv_issued' = Append(inv_issued, threads[t].record["id"])
  /\ UNCHANGED <<inventory, orders, inventory_counter, order_counter,
                 ord_issued, script>>

delete_inventory_99(t) ==
  /\ At(t, "delete_inventory", 99)
  /\ IF ~Has(inventory, threads[t].id)
     THEN Answered(t, HTTPException(404, <<"Inventory item not found">>))
     ELSE Goto(t, 103, <<>>) /\ UNCHANGED response
  /\ UNCHANGED <<inventory, orders, inventory_counter, order_counter,
                 inv_issued, ord_issued, script>>

(* the loop assigns order["items"] in the stored dicts, which are also the
   dicts that the handlers about to return them hold *)
delete_inventory_103(t) ==
  /\ At(t, "delete_inventory", 103)
  /\ orders' = clean_order_references(orders, threads[t].id)
  /\ threads' =
       [u \in Threads |->
          IF u = t THEN [threads[u] EXCEPT !.pc = 106]
          ELSE IF threads[u].alias /\ threads[u].op # "create_inventory"
               THEN [threads[u] EXCEPT !.record =
                       Get(clean_order_references(
                             <<[k |-> 0, v |-> threads[u].record]>>,
                             threads[t].id), 0)]
               ELSE threads[u]]
  /\ UNCHANGED <<inventory, inventory_counter, order_counter, response,
                 inv_issued, ord_issued, script>>

delete_inventory_106(t) ==
  /\ At(t, "delete_inventory", 106)
  /\ IF ~Has(inventory, threads[t].id)
     THEN Answered(t, InternalServerError) /\ UNCHANGED inventory  \* KeyError
     ELSE /\ inventory' = DictDel(inventory, threads[t].id)
          /\ Goto(t, 107, <<>>)
          /\ UNCHANGED response
  /\ UNCHANGED <<orders, inventory_counter, order_counter,
                 inv_issued, ord_issued, script>>

delete_inventory_107(t) ==
  /\ At(t, "delete_inventory", 107)
  /\ Answered(t, Response(204))
  /\ UNCHANGED <<inventory, orders, inventory_counter, order_counter,
                 inv_issued, ord_issued, script>>

create_order_113(t) ==
  /\ At(t, "create_order", 113)
  /\ LET validated ==
           validate_order_items(S, OrderCreate_model_dump(threads[t].body)["items"].v)
     IN  IF validated.response # NoResponse
         THEN Answered(t, validated.response)
         ELSE Goto(t, 114, <<>>) /\ UNCHANGED response
  /\ UNCHANGED <<inventory, orders, inventory_counter, order_counter,
                 inv_issued, ord_issued, script>>

create_order_114(t) ==
  /\ At(t, "create_order", 114)
  /\ order_counter' = order_counter + 1
  /\ Goto(t, 115, <<>>)
  /\ UNCHANGED <<inventory, orders, inventory_counter, response,
                 inv_issued, ord_issued, script>>

create_order_115(t) ==
  /\ At(t, "create_order", 115)
  /\ Goto(t, 116, DictUpdate([id |-> order_counter],
                             OrderCreate_model_dump(threads[t].body)))
  /\ UNCHANGED <<inventory, orders, inventory_counter, order_counter,
                 response, inv_issued, ord_issued, script>>

create_order_116(t) ==
  /\ At(t, "create_order", 116)
  /\ orders' = DictSet(orders, order_counter, threads[t].record)
  /\ Stored(t, order_counter, 117)
  /\ UNCHANGED <<inventory, inventory_counter, order_counter, response,
                 inv_issued, ord_issued, script>>

create_order_117(t) ==
  /\ At(t, "create_order", 117)
  /\ Answered(t, Returned(201, OrderOut(threads[t].record), threads[t].record))
  /\ ord_issued' = Append(ord_issued, threads[t].record["id"])
  /\ UNCHANGED <<inventory, orders, inventory_counter, order_counter,
                 inv_issued, script>>

replace_order_129(t) ==
  /\ At(t, "replace_order", 129)
  /\ IF ~Has(orders, threads[t].id)
     THEN Answered(t, HTTPException(404, <<"Order not found">>))
     ELSE Goto(t, 132, <<>>) /\ UNCHANGED response
  /\ UNCHANGED <<inventory, orders, inventory_counter, order_counter,
                 inv_issued, ord_issued, script>>

replace_order_132(t) ==
  /\ At(t, "replace_order", 132)
  /\ LET validated ==
           validate_order_items(S, OrderCreate_model_dump(threads[t].body)["items"].v)
     IN  IF validated.response # NoResponse
         THEN Answered(t, validated.response)
         ELSE Goto(t, 133, <<>>) /\ UNCHANGED response
  /\ UNCHANGED <<inventory, orders, inventory_counter, order_counter,
                 inv_issued, ord_issued, script>>

replace_order_133(t) ==
  /\ At(t, "replace_order", 133)
  /\ Goto(t, 134, DictUpdate([id |-> threads[t].id],
                             OrderCreate_model_dump(threads[t].body)))
  /\ UNCHANGED <<inventory, orders, inventory_counter, order_counter,
                 response, inv_issued, ord_issued, script>>

replace_order_134(t) ==
  /\ At(t, "replace_order", 134)
  /\ orders' = DictSet(orders, threads[t].id, threads[t].record)
  /\ Stored(t, threads[t].id, 135)
  /\ UNCHANGED <<inventory, inventory_counter, order_counter, response,
                 inv_issued, ord_issued, script>>

replace_order_135(t) ==
  /\ At(t, "replace_order", 135)
  /\ Answered(t, Returned(200, OrderOut(threads[t].record), threads[t].record))
  /\ UNCHANGED <<inventory, orders, inventory_counter, order_counter,
                 inv_issued, ord_issued, script>>

patch_order_140(t) ==
  /\ At(t, "patch_order", 140)
  /\ IF ~Has(orders, threads[t].id)
     THEN Answered(t, HTTPException(404, <<"Order not found">>))
     ELSE Goto(t, 143, <<>>) /\ UNCHANGED response
  /\ UNCHANGED <<inventory, orders, inventory_counter, order_counter,
                 inv_issued, ord_issued, script>>

(* lines 143-145: updates is a function of the payload alone *)
patch_order_143(t) ==
  /\ At(t, "patch_order", 143)
  /\ LET updates == OrderUpdate_model_dump(threads[t].body)
     IN  IF "items" \in DOMAIN updates /\ updates["items"] = JNull
         THEN Answered(t, InternalServerError)   \* iterating None: TypeError
         ELSE IF "items" \in DOMAIN updates
                 /\ validate_order_items(S, updates["items"].v).response
                      # NoResponse
         THEN Answered(t, validate_order_items(S, updates["items"].v).response)
         ELSE Goto(t, 146, <<>>) /\ UNCHANGED response
  /\ UNCHANGED <<inventory, orders, inventory_counter, order_counter,
                 inv_issued, ord_issued, script>>

patch_order_146(t) ==
  /\ At(t, "patch_order", 146)
  /\ IF ~Has(orders, threads[t].id)
     THEN Answered(t, InternalServerError)   \* KeyError
     ELSE Goto(t, 147, Get(orders, threads[t].id)) /\ UNCHANGED response
  /\ UNCHANGED <<inventory, orders, inventory_counter, order_counter,
                 inv_issued, ord_issued, script>>

patch_order_147(t) ==
  /\ At(t, "patch_order", 147)
  /\ Goto(t, 148, DictUpdate(threads[t].record,
                             OrderUpdate_model_dump(threads[t].body)))
  /\ UNCHANGED <<inventory, orders, inventory_counter, order_counter,
                 response, inv_issued, ord_issued, script>>

patch_order_148(t) ==
  /\ At(t, "patch_order", 148)
  /\ orders' = DictSet(orders, threads[t].id, threads[t].record)
  /\ Stored(t, threads[t].id, 149)
  /\ UNCHANGED <<inventory, inventory_counter, order_counter, response,
                 inv_issued, ord_issued, script>>

patch_order_149(t) ==
  /\ At(t, "patch_order", 149)
  /\ Answered(t, Returned(200, OrderOut(threads[t].record), threads[t].record))
  /\ UNCHANGED <<inventory, orders, inventory_counter, order_counter,
                 inv_issued, ord_issued, script>>

ConcurrentNext ==
  \E t \in Threads :
    \/ create_inventory_69(t)
    \/ create_inventory_70(t)
    \/ create_inventory_71(t)
    \/ create_inventory_72(t)
    \/ delete_inventory_99(t)
    \/ delete_inventory_103(t)
    \/ delete_inventory_106(t)
    \/ delete_inventory_107(t)
    \/ create_order_113(t)
    \/ create_order_114(t)
    \/ create_order_115(t)
    \/ create_order_116(t)
    \/ create_order_117(t)
    \/ replace_order_129(t)
    \/ replace_order_132(t)
    \/ replace_order_133(t)
    \/ replace_order_134(t)
    \/ replace_order_135(t)
    \/ patch_order_140(t)
    \/ patch_order_143(t)
    \/ patch_order_146(t)
    \/ patch_order_147(t)
    \/ patch_order_148(t)
    \/ patch_order_149(t)

SpecConcurrent == ConcurrentInit /\ [][ConcurrentNext]_vars

---------------------------------------------------------------------------
(* Vocabulary of the properties *)

Range(q) == { q[i] : i \in 1..Len(q) }

StrictlyIncreasing(q) == \A i, j \in 1..Len(q) : i < j => q[i] < q[j]

SameStore(r) ==
  /\ r.inventory = inventory
  /\ r.orders = orders
  /\ r.inventory_counter = inventory_counter
  /\ r.order_counter = order_counter

(* the items a body of POST/PUT/PATCH /orders sends, when it sends a list *)
SentItems(body) ==
  IF "items" \in DOMAIN body /\ body["items"].t = "list"
  THEN body["items"].v ELSE <<>>

(* the ids among the items of body that are no key of the inventory *)
Dangling(body) == { i \in Range(SentItems(body)) : ~Has(inventory, i) }

(* q with every occurrence of a taken out, the rest in place *)
RECURSIVE Removed(_, _)
Removed(q, a) ==
  IF q = <<>> THEN <<>>
  ELSE IF Head(q) = a THEN Removed(Tail(q), a)
  ELSE <<Head(q)>> \o Removed(Tail(q), a)

---------------------------------------------------------------------------
(* C1: between two resets, the ids that the successful POST /inventory    *)
(* requests returned are strictly increasing in the order they were       *)
(* returned, and so are those of POST /orders: no id is returned twice,   *)
(* whatever was replaced, patched or deleted in between.                  *)
C1_MonotonicIds ==
  /\ StrictlyIncreasing(inv_issued)
  /\ StrictlyIncreasing(ord_issued)

(* two ids issued by each store, the record of the first deleted *)
C1_Witness ==
  /\ Len(inv_issued) >= 2 /\ ~Has(inventory, inv_issued[1])
  /\ Len(ord_issued) >= 2 /\ ~Has(orders, ord_issued[1])

(* C2: every POST /orders whose body passes the field validation of      *)
(* OrderCreate (a body that fails it is answered 422 before the handler   *)
(* runs) and whose items name an id that is no inventory key is answered  *)
(* 400, each such id is in the detail, and the order store and the order  *)
(* counter are as before.                                                 *)
C2_RejectedCreate ==
  \A body \in OrderBodies :
    (OrderCreate(body) /\ Dangling(body) # {}) =>
      LET r == create_order(S, body)
      IN  /\ r.response.status = 400
          /\ \A i \in Dangling(body) : ToString(i) \in Range(r.response.detail)
          /\ r.orders = orders
          /\ r.order_counter = order_counter

(* a rejected POST /orders was just answered, an order being stored *)
C2_Witness ==
  /\ orders # <<>>
  /\ order_counter > 0
  /\ \E body \in OrderBodies :
       /\ OrderCreate(body) /\ Dangling(body) # {}
       /\ response = create_order(S, body).response
       /\ response.status = 400

(* C3: a successful DELETE /inventory/{A} leaves the same orders under    *)
(* the same ids in the same places, each with its customer and status,    *)
(* its items being the former items without any A and otherwise in the    *)
(* former order; the order counter does not move.                         *)
C3_CascadingCleanup ==
  \A A \in Keys(inventory) :
    LET r == delete_inventory(S, A)
    IN  /\ r.response.status = 204
        /\ r.order_counter = order_counter
        /\ Len(r.orders) = Len(orders)
        /\ \A n \in 1..Len(orders) :
             LET old == orders[n].v
                 new == r.orders[n].v
             IN  /\ r.orders[n].k = orders[n].k
                 /\ DOMAIN new = DOMAIN old
                 /\ new["id"] = old["id"]
                 /\ new["customer"] = old["customer"]
                 /\ new["status"] = old["status"]
                 /\ new["items"] = JList(Removed(old["items"].v, A))

(* an item that an order holds twice, between two other items that stay,  *)
(* can be deleted, a second order being stored                            *)
C3_Witness ==
  \E A \in Keys(inventory) :
    /\ delete_inventory(S, A).response.status = 204
    /\ Len(orders) >= 2
    /\ \E n \in 1..Len(orders) :
         LET items == orders[n].v["items"].v
         IN  /\ Len(items) >= 3
             /\ items[1] # A /\ items[2] = A /\ items[3] # A /\ items[3] # items[1]
    /\ \E n \in 1..Len(orders) : A \notin Range(orders[n].v["items"].v)

(* C4: every stored inventory record has a name of 1 to 100 characters,  *)
(* an integer quantity >= 0 and a price >= 0, every stored order record   *)
(* has a customer of 1 to 100 characters, a list of integers as items and *)
(* a string as status; no stored field is null.                           *)
C4_DataModel ==
  /\ \A n \in 1..Len(inventory) :
       LET record == inventory[n].v
       IN  /\ DOMAIN record = {"id", "name", "quantity", "price"}
           /\ record["name"].t = "str"
           /\ Len(record["name"].v) \in 1..MaxNameLen
           /\ record["quantity"].t = "int" /\ record["quantity"].v >= 0
           /\ record["price"].t = "int" /\ record["price"].v >= 0
  /\ \A n \in 1..Len(orders) :
       LET record == orders[n].v
       IN  /\ DOMAIN record = {"id", "customer", "items", "status"}
           /\ record["customer"].t = "str"
           /\ Len(record["customer"].v) \in 1..MaxNameLen
           /\ record["items"].t = "list"
           /\ \A j \in 1..Len(record["items"].v) : record["items"].v[j] \in Int
           /\ record["status"].t = "str"

(* C5: a request that is answered with an error status leaves both       *)
(* stores and both counters as they were.                                 *)
C5_AllOrNothing ==
  [][response'.status >= 400 => UNCHANGED store]_vars

(* C6: a successful PATCH /inventory/{id} gives each field that the body *)
(* carries the value sent, leaves every other field and the id of the     *)
(* record as they were, and leaves every other record and the place of    *)
(* each record as they were.                                              *)
C6_PartialUpdate ==
  \A item_id \in InventoryPathIds, body \in InventoryPatches :
    LET r == patch_inventory(S, item_id, body)
    IN  r.response.status = 200 =>
          /\ Len(r.inventory) = Len(inventory)
          /\ \A n \in 1..Len(inventory) :
               LET old == inventory[n].v
                   new == r.inventory[n].v
               IN  /\ r.inventory[n].k = inventory[n].k
                   /\ inventory[n].k # item_id => new = old
                   /\ inventory[n].k = item_id =>
                        /\ DOMAIN new = DOMAIN old
                        /\ new["id"] = item_id /\ old["id"] = item_id
                        /\ \A f \in {"name", "quantity", "price"} :
                             new[f] = IF f \in DOMAIN body THEN body[f] ELSE old[f]

(* a patch that sends the price alone succeeds and changes it, a second   *)
(* record being stored                                                    *)
C6_Witness ==
  \E item_id \in Keys(inventory), body \in InventoryPatches :
    /\ DOMAIN body = {"price"}
    /\ Len(inventory) >= 2
    /\ patch_inventory(S, item_id, body).response.status = 200
    /\ body["price"] # Get(inventory, item_id)["price"]

(* C7: after a successful PUT the record under id is the id and the       *)
(* fields of the body and nothing of the record before; for an order,     *)
(* items left out of the body are stored as the empty list and a status   *)
(* left out as "pending".                                                 *)
C7_FullOverwrite ==
  /\ \A item_id \in InventoryPathIds, body \in InventoryBodies :
       LET r == replace_inventory(S, item_id, body)
       IN  r.response.status = 200 =>
             Get(r.inventory, item_id) =
               [id |-> item_id, name |-> body["name"],
                quantity |-> body["quantity"], price |-> body["price"]]
  /\ \A order_id \in OrderPathIds, body \in OrderBodies :
       LET r == replace_order(S, order_id, body)
       IN  r.response.status = 200 =>
             Get(r.orders, order_id) =
               [id |-> order_id, customer |-> body["customer"],
                items |-> IF "items" \in DOMAIN body THEN body["items"]
                          ELSE JList(<<>>),
                status |-> IF "status" \in DOMAIN body THEN body["status"]
                           ELSE JStr("pending")]

(* an order with items and a status of its own is replaced by a body of   *)
(* a customer alone; an inventory record is replaced at another price     *)
C7_Witness ==
  /\ \E order_id \in Keys(orders), body \in OrderBodies :
       /\ DOMAIN body = {"customer"}
       /\ Get(orders, order_id)["items"] # JList(<<>>)
       /\ Get(orders, order_id)["status"] # JStr("pending")
       /\ replace_order(S, order_id, body).response.status = 200
  /\ \E item_id \in Keys(inventory), body \in InventoryBodies :
       /\ replace_inventory(S, item_id, body).response.status = 200
       /\ body["price"] # Get(inventory, item_id)["price"]

(* C8: the same PUT sent twice in a row, with a body that passes field    *)
(* validation, is answered the same both times and leaves after the       *)
(* second request the stores and counters that the first one left.        *)
C8_PutIdempotent ==
  /\ \A item_id \in InventoryPathIds, body \in InventoryBodies :
       InventoryCreate(body) =>
         LET first == replace_inventory(S, item_id, body)
         IN  replace_inventory(first, item_id, body) = first
  /\ \A order_id \in OrderPathIds, body \in OrderBodies :
       OrderCreate(body) =>
         LET first == replace_order(S, order_id, body)
         IN  replace_order(first, order_id, body) = first

(* a PUT that changes the stored record, for each store *)
C8_Witness ==
  /\ \E item_id \in Keys(inventory), body \in InventoryBodies :
       /\ replace_inventory(S, item_id, body).response.status = 200
       /\ replace_inventory(S, item_id, body).inventory # inventory
  /\ \E order_id \in Keys(orders), body \in OrderBodies :
       /\ replace_order(S, order_id, body).response.status = 200
       /\ replace_order(S, order_id, body).orders # orders

(* C9: a request that names an id which is no key of the store it        *)
(* addresses, its body (if it has one) passing field validation, is       *)
(* answered 404 and changes neither store nor either counter.             *)
NotFound(r) == r.response.status = 404 /\ SameStore(r)

C9_NotFound ==
  /\ \A item_id \in InventoryPathIds :
       ~Has(inventory, item_id) =>
         /\ \A body \in InventoryBodies :
              InventoryCreate(body) => NotFound(replace_inventory(S, item_id, body))
         /\ \A body \in InventoryPatches :
              InventoryUpdate(body) => NotFound(patch_inventory(S, item_id, body))
         /\ NotFound(delete_inventory(S, item_id))
  /\ \A order_id \in OrderPathIds :
       ~Has(orders, order_id) =>
         /\ NotFound(read_order(S, order_id))
         /\ \A body \in OrderBodies :
              OrderCreate(body) => NotFound(replace_order(S, order_id, body))
         /\ \A body \in OrderPatches :
              OrderUpdate(body) => NotFound(patch_order(S, order_id, body))
         /\ NotFound(delete_order(S, order_id))

(* the inventory holds a record and lost the one issued before it, the    *)
(* order store holds a record and has not issued the next id, and a GET   *)
(* of that id was just answered 404                                       *)
C9_Witness ==
  /\ Len(inv_issued) = 2 /\ Keys(inventory) = {inv_issued[2]}
  /\ Len(ord_issued) = 1 /\ Keys(orders) = {ord_issued[1]}
  /\ NotFound(delete_inventory(S, inv_issued[1]))
  /\ response = read_order(S, order_counter + 1).response
  /\ response.status = 404

(* C10: PUT and PATCH /orders/{id} with a body that passes field          *)
(* validation, an id that is no key of the order store and items that     *)
(* name a missing inventory id are answered 404; no PUT or PATCH          *)
(* /orders/{id} is answered 400 unless the order id is stored.            *)
C10_CheckOrdering ==
  \A order_id \in OrderPathIds :
    /\ \A body \in OrderBodies :
         LET r == replace_order(S, order_id, body)
         IN  /\ (OrderCreate(body) /\ ~Has(orders, order_id) /\ Dangling(body) # {})
                  => r.response.status = 404
             /\ r.response.status = 400 => Has(orders, order_id)
    /\ \A body \in OrderPatches :
         LET r == patch_order(S, order_id, body)
         IN  /\ (OrderUpdate(body) /\ ~Has(orders, order_id) /\ Dangling(body) # {})
                  => r.response.status = 404
             /\ r.response.status = 400 => Has(orders, order_id)

(* one order id is stored and one is not, an inventory id is missing, and *)
(* a PUT of items naming it to the order id that is not stored was just   *)
(* answered; the same PUT to the stored order is answered 400             *)
C10_Witness ==
  \E absent \in OrderPathIds, stored \in Keys(orders), body \in OrderBodies :
    /\ ~Has(orders, absent)
    /\ OrderCreate(body) /\ Dangling(body) # {}
    /\ response = replace_order(S, absent, body).response
    /\ response.status = 404
    /\ replace_order(S, stored, body).response.status = 400

(* C11: PUT /orders/{id} and PATCH /orders/{id} of a stored order, with a *)
(* body that passes field validation and items that name an id which is   *)
(* no inventory key, are answered 400, the ids named in the detail being  *)
(* those of the sent items that are missing, and both stores and both     *)
(* counters stay as they were, whatever customer or status the body       *)
(* carries besides.                                                       *)
Rejected(r, body) ==
  /\ r.response.status = 400
  /\ \A i \in Range(SentItems(body)) :
       ToString(i) \in Range(r.response.detail) <=> i \in Dangling(body)
  /\ SameStore(r)

C11_RejectedUpdate ==
  \A order_id \in Keys(orders) :
    /\ \A body \in OrderBodies :
         (OrderCreate(body) /\ Dangling(body) # {}) =>
           Rejected(replace_order(S, order_id, body), body)
    /\ \A body \in OrderPatches :
         (OrderUpdate(body) /\ Dangling(body) # {}) =>
           Rejected(patch_order(S, order_id, body), body)

(* a PATCH that sends a new status with items of which one is missing and *)
(* one is stored was just rejected, the order having another status       *)
C11_Witness ==
  \E order_id \in Keys(orders), body \in OrderPatches :
    /\ OrderUpdate(body)
    /\ "status" \in DOMAIN body
    /\ body["status"] # Get(orders, order_id)["status"]
    /\ Dangling(body) # {} /\ Dangling(body) # Range(SentItems(body))
    /\ response = patch_order(S, order_id, body).response
    /\ response.status = 400
    /\ Len(orders) >= 2


(* ---- C12 ---- *)
(* the candidates that are not keys of the inventory store, in the order of
   the candidate list and with their repetitions *)
RECURSIVE Absent(_)
Absent(q) ==
  IF q = <<>> THEN <<>>
  ELSE IF \E e \in Range(inventory) : e.k = Head(q)
       THEN Absent(Tail(q))
       ELSE <<Head(q)>> \o Absent(Tail(q))

(* the ids named by a 400 detail, in the order in which it names them *)
Named(detail, q) ==
  SelectSeq(detail, LAMBDA t : t \in {ToString(i) : i \in Range(q)})

(* C12: the item-reference validator succeeds exactly when every candidate id
   is a key of the inventory store (the empty list included); otherwise it
   raises 400 "Items not found in inventory: " followed by the missing ids
   in candidate order, a repeated missing id named as often as it occurs.
   It modifies no store and no counter. *)
C12_Validator ==
  \A q \in CascadeLists :
    LET r == validate_order_items(S, q)
    IN  /\ SameStore(r)
        /\ r.response = NoResponse <=> Range(q) \subseteq Keys(inventory)
        /\ r.response # NoResponse =>
              /\ r.response.status = 400
              /\ Head(r.response.detail) = "Items not found in inventory: "
              /\ Named(r.response.detail, q)
                   = [n \in DOMAIN Absent(q) |-> ToString(Absent(q)[n])]

C12_Witness ==
  /\ inventory # <<>> /\ orders # <<>>
  /\ validate_order_items(S, <<>>).response = NoResponse
  /\ \E q \in CascadeLists :
       /\ Len(q) = 3 /\ q[1] = q[3] /\ q[1] > q[2]
       /\ ~Has(inventory, q[1]) /\ Has(inventory, q[2])
       /\ validate_order_items(S, q).response.status = 400
       /\ Len(Absent(q)) = 2
  /\ \E q \in CascadeLists :
       Len(q) = 2 /\ validate_order_items(S, q).response = NoResponse


(* ---- C13 ---- *)
(* no counter of r is below the current one *)
NoDecrease(r) ==
  /\ r.inventory_counter >= inventory_counter
  /\ r.order_counter >= order_counter

(* C13: reset_state empties both stores and zeroes both counters in one
   step, which is the initial state; no request handler decreases a counter;
   and deleting the last record of a store leaves its counter where it was,
   so that the next create answers counter + 1 and not 1. *)
C13_Reset ==
  /\ LET r == reset_state(S)
     IN  /\ r.inventory = <<>> /\ r.orders = <<>>
         /\ r.inventory_counter = 0 /\ r.order_counter = 0
  /\ NoDecrease(list_inventory(S))
  /\ \A body \in InventoryBodies : NoDecrease(create_inventory(S, body))
  /\ \A item_id \in InventoryPathIds :
       /\ \A body \in InventoryBodies :
            NoDecrease(replace_inventory(S, item_id, body))
       /\ \A body \in InventoryPatches :
            NoDecrease(patch_inventory(S, item_id, body))
       /\ NoDecrease(delete_inventory(S, item_id))
  /\ \A body \in OrderBodies : NoDecrease(create_order(S, body))
  /\ \A order_id \in OrderPathIds :
       /\ NoDecrease(read_order(S, order_id))
       /\ \A body \in OrderBodies :
            NoDecrease(replace_order(S, order_id, body))
       /\ \A body \in OrderPatches :
            NoDecrease(patch_order(S, order_id, body))
       /\ NoDecrease(delete_order(S, order_id))
  /\ \A item_id \in Keys(inventory) :
       Len(inventory) = 1 =>
         LET d == delete_inventory(S, item_id)
         IN  /\ d.inventory = <<>>
             /\ d.inventory_counter = inventory_counter
             /\ inventory_counter >= 1
             /\ \A body \in InventoryBodies :
                  InventoryCreate(body) =>
                    LET c == create_inventory(d, body)
                    IN  /\ c.response.status = 201
                        /\ c.response.body[1]["id"] = inventory_counter + 1
                        /\ Keys(c.inventory) = {inventory_counter + 1}
  /\ \A order_id \in Keys(orders) :
       Len(orders) = 1 =>
         LET d == delete_order(S, order_id)
         IN  /\ d.orders = <<>>
             /\ d.order_counter = order_counter
             /\ order_counter >= 1
             /\ \A body \in OrderBodies :
                  (OrderCreate(body) /\ Dangling(body) = {}) =>
                    LET c == create_order(d, body)
                    IN  /\ c.response.status = 201
                        /\ c.response.body[1]["id"] = order_counter + 1
                        /\ Keys(c.orders) = {order_counter + 1}

(* both stores were emptied by deletes and both counters stayed *)
C13_Witness ==
  /\ inventory = <<>> /\ inventory_counter >= 1
  /\ orders = <<>> /\ order_counter >= 1
  /\ response.status = 204
  /\ inv_issued # <<>> /\ ord_issued # <<>>


(* ---- C14 ---- *)
(* C14: in every reachable state GET /inventory answers 200, changes no
   state and returns exactly the stored inventory records, one per stored
   id, in ascending id (creation) order. *)
C14_List ==
  LET r == list_inventory(S)
  IN  /\ r.response.status = 200
      /\ SameStore(r)
      /\ Len(r.response.body) = Len(inventory)
      /\ \A n \in 1..Len(inventory) :
           /\ r.response.body[n] = inventory[n].v
           /\ r.response.body[n]["id"] = inventory[n].k
      /\ StrictlyIncreasing([n \in 1..Len(inventory) |-> inventory[n].k])


(* ---- C15 ---- *)
(* C15: from the initial state, POST /inventory answers 201 with id 1 and
   the second POST /inventory with id 2; POST /orders with customer Ada,
   items [1, 2] and status pending answers 201 with id 1; DELETE
   /inventory/1 answers 204; GET /orders/1 then shows items = [2]; DELETE
   /orders/1 answers 204; GET /orders/1 then answers 404. *)
C15_Scenario ==
  /\ script.step = 1 =>
       /\ response.status = 201
       /\ response.body = <<DictUpdate([id |-> 1], script.first)>>
  /\ script.step = 2 =>
       /\ response.status = 201
       /\ response.body = <<DictUpdate([id |-> 2], script.second)>>
  /\ script.step = 3 =>
       /\ response.status = 201
       /\ response.body = <<DictUpdate([id |-> 1], AdaPending)>>
  /\ script.step = 4 => response = Response(204)
  /\ script.step = 5 =>
       /\ response.status = 200
       /\ response.body =
            <<DictUpdate([id |-> 1], [AdaPending EXCEPT !.items = JList(<<2>>)])>>
  /\ script.step = 6 => response = Response(204)
  /\ script.step = 7 => response.status = 404

C15_Witness ==
  /\ script = [step |-> 7, first |-> Widget, second |-> Gadget,
               order |-> AdaPending]
  /\ response.status = 404
  /\ Keys(inventory) = {2}
  /\ orders = <<>>
  /\ inv_issued = <<1, 2>> /\ ord_issued = <<1>>


(* ---- C16 ---- *)
(* the id that the answered create request of thread t returned *)
ReturnedId(t) == threads[t].response.body[1]["id"]

(* threads t and u have both been answered 201 for a create on one store *)
BothCreated(t, u, op) ==
  /\ t # u
  /\ threads[t].op = op /\ threads[u].op = op
  /\ threads[t].pc = 0 /\ threads[u].pc = 0
  /\ threads[t].response.status = 201 /\ threads[u].response.status = 201

(* C16: two create requests on the same store whose statements interleave
   are assigned distinct ids, and both records end up stored, each under
   its own id. *)
C16_AtomicCreate ==
  \A t, u \in Threads :
    /\ BothCreated(t, u, "create_inventory") =>
         /\ ReturnedId(t) # ReturnedId(u)
         /\ Has(inventory, ReturnedId(t))
         /\ Get(inventory, ReturnedId(t))["id"] = ReturnedId(t)
         /\ Get(inventory, ReturnedId(t))["name"] = threads[t].body["name"]
    /\ BothCreated(t, u, "create_order") =>
         /\ ReturnedId(t) # ReturnedId(u)
         /\ Has(orders, ReturnedId(t))
         /\ Get(orders, ReturnedId(t))["id"] = ReturnedId(t)

(* ---- C17 ---- *)
(* C17: once a DELETE /inventory/{A} that found A and the order writer
   running beside it have both been answered, no stored order's items
   contain A. *)
C17_AtomicCascade ==
  \A t \in Threads :
    ( /\ \A u \in Threads : threads[u].pc = 0
      /\ threads[t].op = "delete_inventory"
      /\ threads[t].response.status = 204 ) =>
        \A n \in 1..Len(orders) :
          threads[t].id \notin Range(orders[n].v["items"].v)


(* ---- C18 ---- *)
(* C18: when the requests run one at a time, each to completion, every id
   in the items of every stored order is a key of the inventory store. *)
C18_ReferentialIntegrity ==
  \A n \in 1..Len(orders) :
    /\ orders[n].v["items"].t = "list"
    /\ Range(orders[n].v["items"].v) \subseteq Keys(inventory)

(* an item was deleted, and orders with and without items are stored *)
C18_Witness ==
  /\ response = Response(204)
  /\ Len(inventory) < inventory_counter
  /\ inventory # <<>>
  /\ \E n \in 1..Len(orders) : orders[n].v["items"].v = <<>>
  /\ \E n \in 1..Len(orders) : Len(orders[n].v["items"].v) = 2


(* ---- C19 ---- *)
(* C19: PATCH /orders/{id} on a stored order validates the item references
   only when the body has items: it answers 400 exactly when the body has
   items of which one is missing, and a body without items leaves the
   stored items as they are.  When it succeeds (200), the supplied fields
   among customer, items and status have the supplied values, items in the
   order sent and with its repetitions, and the id and the fields not
   supplied have the values of before; nothing else in the stores moves. *)
C19_OrderPartialUpdate ==
  \A order_id \in Keys(orders), body \in WideOrderPatches :
    OrderUpdate(body) =>
      LET r == patch_order(S, order_id, body)
          before == Get(orders, order_id)
          after == Get(r.orders, order_id)
      IN  /\ r.response.status = 400 <=>
                ("items" \in DOMAIN body /\ Dangling(body) # {})
          /\ "items" \notin DOMAIN body => after["items"] = before["items"]
          /\ r.response.status = 200 =>
                /\ \A f \in {"customer", "items", "status"} :
                     after[f] = IF f \in DOMAIN body THEN body[f] ELSE before[f]
                /\ after["id"] = order_id /\ before["id"] = order_id
                /\ DOMAIN after = {"id", "customer", "items", "status"}
                /\ r.response.body = <<after>>
                /\ Keys(r.orders) = Keys(orders)
                /\ \A other \in Keys(orders) \ {order_id} :
                     Get(r.orders, other) = Get(orders, other)
                /\ r.inventory = inventory
                /\ r.inventory_counter = inventory_counter
                /\ r.order_counter = order_counter

(* a PATCH that sent an item twice and no status has just been answered
   200, on an order whose status was not the default *)
C19_Witness ==
  \E order_id \in Keys(orders), body \in OrderPatches :
    /\ DOMAIN body = {"items"}
    /\ body["items"].t = "list"
    /\ Len(body["items"].v) = 2 /\ body["items"].v[1] = body["items"].v[2]
    /\ response = patch_order(S, order_id, body).response
    /\ response.status = 200
    /\ Get(orders, order_id)["items"] = body["items"]
    /\ Get(orders, order_id)["status"] = JStr("shipped")
    /\ Len(orders) = 2


(* ---- C20 ---- *)
(* r leaves the inventory store and its counter as they are *)
InventoryKept(r) ==
  r.inventory = inventory /\ r.inventory_counter = inventory_counter

(* r leaves the order store and its counter as they are *)
OrdersKept(r) ==
  r.orders = orders /\ r.order_counter = order_counter

(* r.orders is orders but for the items of its records *)
OnlyItemsChanged(r) ==
  /\ r.order_counter = order_counter
  /\ Len(r.orders) = Len(orders)
  /\ \A n \in 1..Len(orders) :
       /\ r.orders[n].k = orders[n].k
       /\ DOMAIN r.orders[n].v = DOMAIN orders[n].v
       /\ \A f \in DOMAIN orders[n].v \ {"items"} :
            r.orders[n].v[f] = orders[n].v[f]

(* C20: no request on /orders, answered with a success or with an error,
   changes the inventory store or the inventory counter; POST, PUT, PATCH
   and GET on /inventory leave the order store and the order counter as
   they are; DELETE /inventory/{id} changes nothing in the order store but
   items lists. *)
C20_CrossStoreFrame ==
  /\ \A body \in OrderBodies : InventoryKept(create_order(S, body))
  /\ \A order_id \in OrderPathIds :
       /\ InventoryKept(read_order(S, order_id))
       /\ \A body \in OrderBodies :
            InventoryKept(replace_order(S, order_id, body))
       /\ \A body \in OrderPatches \cup WideOrderPatches :
            InventoryKept(patch_order(S, order_id, body))
       /\ InventoryKept(delete_order(S, order_id))
  /\ OrdersKept(list_inventory(S))
  /\ \A body \in InventoryBodies : OrdersKept(create_inventory(S, body))
  /\ \A item_id \in InventoryPathIds :
       /\ \A body \in InventoryBodies :
            OrdersKept(replace_inventory(S, item_id, body))
       /\ \A body \in InventoryPatches :
            OrdersKept(patch_inventory(S, item_id, body))
       /\ OnlyItemsChanged(delete_inventory(S, item_id))

(* a POST /orders has just been answered 201 while an item is in stock and
   another one was deleted *)
C20_Witness ==
  /\ response.status = 201
  /\ "customer" \in DOMAIN response.body[1]
  /\ response.body[1]["items"].v # <<>>
  /\ Len(orders) = 2
  /\ Len(inventory) = 1 /\ inventory_counter = 2

====
